---- MODULE Spec2Model ----
\* A model of steamvdf's binary VDF decoder: the Readable stream built over
\* the input buffer, the three stream helpers (parseNumber, parseString,
\* parseRawBytes) and the three constructors that use them (VdfNode, VdfGame,
\* Vdf).  Bytes are naturals 0..255, strings are sequences of character
\* codes, hexadecimal text is a sequence of one-character strings.
\* JavaScript numbers produced by the bitwise operators are signed 32-bit
\* integers and are kept as such.
EXTENDS Integers, Sequences, FiniteSets, TLC

VARIABLES
    buf,            \* the Buffer handed to new Vdf(buffer)
    off,            \* bytes of buf the stream has handed out so far
    pc,             \* position of the running constructor
    err,            \* the Error thrown to the caller of new Vdf, if any
    sign,           \* Vdf._sign
    version,        \* Vdf._version
    childrenCount,  \* Vdf._childrenCount
    children,       \* Vdf._children
    game,           \* the VdfGame under construction
    stack,          \* the map VdfNodes under construction, outermost first
    last            \* the latest helper call made directly on the stream

vars == <<buf, off, pc, err, sign, version, childrenCount, children, game, stack, last>>

-----------------------------------------------------------------------------
\* Bounds of the model.

\* Entries after the first one in a generated document.
MaxMore == 1
\* Bytes that may be cut off the end of a generated multi-entry document.
MaxCut == 2
\* Length of the byte strings the helpers are applied to on their own.
MaxTail == 2

-----------------------------------------------------------------------------
\* Program constants.

\* const enum VdfTypes.
VdfTypes_None == 0
VdfTypes_String == 1
VdfTypes_Int == 2
VdfTypes_Float == 3
VdfTypes_Numtypes == 8
VdfTypes_Int32 == VdfTypes_Int
VdfTypes_Map == VdfTypes_None
VdfTypes_End == VdfTypes_Numtypes

\* VdfFileTypes.APPINFO = 123094055 = 0x07564427.
APPINFO == 123094055
VdfFileTypes == {APPINFO}
VdfVersions == {1}

-----------------------------------------------------------------------------
\* JavaScript's 32-bit integer operators.

MinInt32 == -2147483647 - 1

Pow2(k) == 2 ^ k

\* Bitwise OR of two naturals below 2^31.
BitOr[a \in Nat, b \in Nat] ==
    IF a = 0 THEN b
    ELSE IF b = 0 THEN a
    ELSE (IF a % 2 = 1 \/ b % 2 = 1 THEN 1 ELSE 0) + 2 * BitOr[a \div 2, b \div 2]

\* The low 31 bits of a signed 32-bit integer.
Low31(x) == IF x < 0 THEN x - MinInt32 ELSE x

\* a | b on signed 32-bit integers.
Or32(a, b) ==
    LET lo == BitOr[Low31(a), Low31(b)]
    IN  IF a < 0 \/ b < 0 THEN lo + MinInt32 ELSE lo

\* x << s : the shift count is taken modulo 32, the result wraps to int32.
Shl32(x, s) ==
    LET k == s % 32
    IN  IF k = 0 THEN x
        ELSE LET half == Pow2(31 - k)
                 y == x % (2 * half)
             IN  IF y < half THEN y * Pow2(k) ELSE (y - 2 * half) * Pow2(k)

-----------------------------------------------------------------------------
\* The stream: new Readable({ read() { this.push(buffer); this.push(null) } }).
\* Since the whole buffer and the end marker are pushed by the first read,
\* read(n) hands out n bytes when n remain, every remaining byte when fewer
\* (but at least one) remain, and null when none remain.

Min(a, b) == IF a < b THEN a ELSE b

StreamRead(b, o, n) ==
    IF o >= Len(b) THEN [null |-> TRUE, data |-> <<>>]
    ELSE [null |-> FALSE, data |-> SubSeq(b, o + 1, Min(o + n, Len(b)))]

\* stream.read(bytes) ?? Buffer.from([0])
ReadOrZero(b, o, n) ==
    LET r == StreamRead(b, o, n)
    IN  [buffer |-> IF r.null THEN <<0>> ELSE r.data, off |-> o + Len(r.data)]

\* Buffers and offsets.
Bytes == Seq(0..255)

\* for (i; i < bytes; i++) number |= (buffer[i] << (i * 8)); an index past
\* the end of the buffer yields undefined, which << turns into 0.
OrBytes[buffer \in Bytes, number \in Int, i \in Nat, bytes \in Nat] ==
    IF i >= bytes THEN number
    ELSE OrBytes[buffer,
                 Or32(number, Shl32(IF i + 1 <= Len(buffer) THEN buffer[i + 1] ELSE 0, i * 8)),
                 i + 1, bytes]

parseNumber[b \in Bytes, o \in Nat, length \in Nat] ==
    LET bytes == length \div 8
        r == ReadOrZero(b, o, bytes)
    IN  [threw |-> FALSE, value |-> OrBytes[r.buffer, r.buffer[1], 1, bytes], off |-> r.off]

\* Index (1-based) of the first zero byte of b after offset o, or 0.
ZeroAt[b \in Bytes, o \in Nat] ==
    IF o >= Len(b) THEN 0
    ELSE IF b[o + 1] = 0 THEN o + 1
    ELSE ZeroAt[b, o + 1]

\* Reads one byte at a time up to and including the first zero byte;
\* (stream.read(1) as Buffer)[0] throws a TypeError once read returns null.
parseString[b \in Bytes, o \in Nat] ==
    LET z == ZeroAt[b, o]
    IN  IF z = 0
        THEN [threw |-> TRUE, value |-> <<>>, off |-> IF o > Len(b) THEN o ELSE Len(b)]
        ELSE [threw |-> FALSE, value |-> SubSeq(b, o + 1, z - 1), off |-> z]

HexDigits == <<"0", "1", "2", "3", "4", "5", "6", "7", "8", "9", "a", "b", "c", "d", "e", "f">>

\* Number.prototype.toString(16) of a byte: no leading zero.
ToString16(x) ==
    IF x < 16 THEN <<HexDigits[x + 1]>>
    ELSE <<HexDigits[(x \div 16) + 1], HexDigits[(x % 16) + 1]>>

HexOf[buffer \in Bytes, i \in Nat, n \in Nat] ==
    IF i >= n THEN <<>> ELSE ToString16(buffer[i + 1]) \o HexOf[buffer, i + 1, n]

\* buffer[i].toString(16) throws a TypeError at the first index past the end
\* of the buffer that read returned.
parseRawBytes[b \in Bytes, o \in Nat, length \in Nat] ==
    LET bytes == length \div 8
        r == ReadOrZero(b, o, bytes)
    IN  IF Len(r.buffer) < bytes
        THEN [threw |-> TRUE, value |-> <<>>, off |-> r.off]
        ELSE [threw |-> FALSE, value |-> HexOf[r.buffer, 0, bytes], off |-> r.off]

-----------------------------------------------------------------------------
\* VdfNode.

Undefined == [kind |-> "undefined", s |-> <<>>, n |-> 0]
StringValue(v) == [kind |-> "string", s |-> v, n |-> 0]
NumberValue(v) == [kind |-> "number", s |-> <<>>, n |-> v]

\* A VdfNode whose fields are still the class's initial values, with its type.
NewNode(t, nm) == [type |-> t, name |-> nm, value |-> Undefined, childrenCount |-> 0, children |-> <<>>]

\* VdfNode._parseValue for the types that hold no children.  Any type other
\* than String and Int32 reads nothing and leaves the value unset.
ParseValue_Int16(t, b, o) ==
    IF t = VdfTypes_String
    THEN LET r == parseString[b, o] IN [threw |-> r.threw, value |-> StringValue(r.value), off |-> r.off]
    ELSE IF t = VdfTypes_Int32
    THEN LET r == parseNumber[b, o, 16] IN [threw |-> FALSE, value |-> NumberValue(r.value), off |-> r.off]
    ELSE [threw |-> FALSE, value |-> Undefined, off |-> o]

ParseValue(t, b, o) ==
    IF t = VdfTypes_String
    THEN LET r == parseString[b, o] IN [threw |-> r.threw, value |-> StringValue(r.value), off |-> r.off]
    ELSE IF t = VdfTypes_Int32
    THEN LET r == parseNumber[b, o, 32] IN [threw |-> FALSE, value |-> NumberValue(r.value), off |-> r.off]
    ELSE [threw |-> FALSE, value |-> Undefined, off |-> o]

\* new VdfNode(stream), up to the point where a map starts reading children:
\* _parseType, then (unless the type is End) _parseName and _parseValue.
\* kind is "throw" when a helper threw, "end" for a terminator, "map" for a
\* map about to read its first child, "leaf" for a finished non-map node.
Construct(b, o) ==
    LET t == parseNumber[b, o, 8]
    IN  IF t.value = VdfTypes_End
        THEN [kind |-> "end", node |-> NewNode(t.value, <<>>), off |-> t.off]
        ELSE LET nm == parseString[b, t.off]
             IN  IF nm.threw
                 THEN [kind |-> "throw", node |-> NewNode(t.value, <<>>), off |-> nm.off]
                 ELSE IF t.value = VdfTypes_Map
                 THEN [kind |-> "map", node |-> NewNode(t.value, nm.value), off |-> nm.off]
                 ELSE LET v == ParseValue(t.value, b, nm.off)
                      IN  [kind |-> IF v.threw THEN "throw" ELSE "leaf",
                           node |-> [NewNode(t.value, nm.value) EXCEPT !.value = v.value],
                           off |-> v.off]

\* this._childrenCount++, which precedes the construction of a child.
Incr(owner) == [owner EXCEPT !.childrenCount = @ + 1]

\* this._children.push(node), which follows the construction of a child.
Push(owner, node) == [owner EXCEPT !.children = Append(@, node)]

Pop(seq) == IF seq = <<>> THEN <<>> ELSE SubSeq(seq, 1, Len(seq) - 1)

\* What a VdfNode or VdfGame whose child loop is still running does with a
\* terminator: childrenCount++, push, the loop condition fails, then
\* this._childrenCount-- and this._children.pop().
CloseChildren_KeepEnd(owner, endNode) ==
    Push(Incr(owner), endNode)

CloseChildren(owner, endNode) ==
    LET pushed == Push(Incr(owner), endNode)
    IN  [pushed EXCEPT !.childrenCount = @ - 1, !.children = Pop(@)]

-----------------------------------------------------------------------------
\* VdfGame.

NoGame == [at |-> 0, appId |-> 0, dataSize |-> 0, infoState |-> 0, lastUpdated |-> 0,
           accessToken |-> 0, sha |-> <<>>, changeNumber |-> 0,
           childrenCount |-> 0, children |-> <<>>]

\* VdfGame._parseHeader without the read of the change number.
GameParseHeader_NoChangeNumber(b, o) ==
    LET appId == parseNumber[b, o, 32]
        dataSize == parseNumber[b, appId.off, 32]
        infoState == parseNumber[b, dataSize.off, 32]
        lastUpdated == parseNumber[b, infoState.off, 32]
        accessToken == parseNumber[b, lastUpdated.off, 64]
        sha == parseRawBytes[b, accessToken.off, 160]
    IN  IF sha.threw
        THEN [threw |-> TRUE, game |-> NoGame, off |-> sha.off]
        ELSE [threw |-> FALSE,
              game |-> [at |-> o, appId |-> appId.value, dataSize |-> dataSize.value,
                        infoState |-> infoState.value, lastUpdated |-> lastUpdated.value,
                        accessToken |-> accessToken.value, sha |-> sha.value,
                        changeNumber |-> 0,
                        childrenCount |-> 0, children |-> <<>>],
              off |-> sha.off]

\* VdfGame._parseHeader: seven reads in a fixed order; only parseRawBytes can
\* throw.  at is the stream offset at which the constructor started.
GameParseHeader(b, o) ==
    LET appId == parseNumber[b, o, 32]
        dataSize == parseNumber[b, appId.off, 32]
        infoState == parseNumber[b, dataSize.off, 32]
        lastUpdated == parseNumber[b, infoState.off, 32]
        accessToken == parseNumber[b, lastUpdated.off, 64]
        sha == parseRawBytes[b, accessToken.off, 160]
        changeNumber == parseNumber[b, sha.off, 32]
    IN  IF sha.threw
        THEN [threw |-> TRUE, game |-> NoGame, off |-> sha.off]
        ELSE [threw |-> FALSE,
              game |-> [at |-> o, appId |-> appId.value, dataSize |-> dataSize.value,
                        infoState |-> infoState.value, lastUpdated |-> lastUpdated.value,
                        accessToken |-> accessToken.value, sha |-> sha.value,
                        changeNumber |-> changeNumber.value,
                        childrenCount |-> 0, children |-> <<>>],
              off |-> changeNumber.off]

-----------------------------------------------------------------------------
\* The JSON views.  An object is a function from keys (strings) to values;
\* every value has the same four fields.

Scalar(v) == [kind |-> v.kind, s |-> v.s, n |-> v.n, obj |-> <<>>]
Number(v) == [kind |-> "number", s |-> <<>>, n |-> v, obj |-> <<>>]
Object(f) == [kind |-> "object", s |-> <<>>, n |-> 0, obj |-> f]

Names(nodes) == {nodes[i].name : i \in 1..Len(nodes)}

\* The child whose assignment object[child.name] = child.value comes last.
LastNamed(nodes, k) ==
    nodes[CHOOSE i \in 1..Len(nodes) :
            /\ nodes[i].name = k
            /\ \A j \in (i + 1)..Len(nodes) : nodes[j].name # k]

RECURSIVE NodeValue(_)
\* get value() of VdfNode.
NodeValue(node) ==
    IF node.type # 0
    THEN Scalar(node.value)
    ELSE Object([k \in Names(node.children) |-> NodeValue(LastNamed(node.children, k))])

Key_appId == <<97, 112, 112, 73, 100>>
Key_dataSize == <<100, 97, 116, 97, 83, 105, 122, 101>>
Key_infoState == <<105, 110, 102, 111, 83, 116, 97, 116, 101>>
Key_lastUpdated == <<108, 97, 115, 116, 85, 112, 100, 97, 116, 101, 100>>
Key_changeNumber == <<99, 104, 97, 110, 103, 101, 78, 117, 109, 98, 101, 114>>

\* VdfGame.json(): five header fields, then one key per child, a child
\* replacing a header field of the same name.
GameJson(g) ==
    LET header == (Key_appId :> Number(g.appId)) @@ (Key_dataSize :> Number(g.dataSize))
                  @@ (Key_infoState :> Number(g.infoState))
                  @@ (Key_lastUpdated :> Number(g.lastUpdated))
                  @@ (Key_changeNumber :> Number(g.changeNumber))
        fields == [k \in Names(g.children) |-> NodeValue(LastNamed(g.children, k))]
    IN  fields @@ header

\* Vdf.jsonSync().
jsonSync ==
    [sign |-> sign, version |-> version, count |-> childrenCount,
     games |-> [i \in 1..Len(children) |-> GameJson(children[i])]]

-----------------------------------------------------------------------------
\* Input buffers.

SigOk == <<39, 68, 86, 7>>
SigBad == <<40, 68, 86, 7>>
VerOk == <<1, 0, 0, 0>>
VerBad == <<2, 0, 0, 0>>

\* The digest of the generated entries: it holds bytes below 0x10.
DigestBytes == <<0, 26, 255, 16, 1, 171, 9, 128, 15, 240, 0, 2, 3, 4, 5, 6, 7, 8, 254, 10>>

TokenBytes == <<1, 2, 3, 4, 5, 0, 0, 0>>

\* The 48 bytes of an entry header.
GameHeaderBytes ==
    <<10, 0, 0, 0>> \o <<3, 1, 0, 0>> \o <<2, 0, 0, 0>> \o <<120, 86, 52, 18>>
    \o TokenBytes \o DigestBytes \o <<7, 0, 0, 128>>

StrNode(k, v) == <<VdfTypes_String>> \o k \o <<0>> \o v \o <<0>>
IntNode(k, bs) == <<VdfTypes_Int32>> \o k \o <<0>> \o bs
FloatNode(k) == <<VdfTypes_Float>> \o k \o <<0>>
MapNode(k, kids) == <<VdfTypes_Map>> \o k \o <<0>> \o kids \o <<VdfTypes_End>>

IntBytes == {<<255, 255, 255, 255>>, <<0, 0, 0, 128>>, <<120, 86, 52, 18>>, <<1, 0, 0, 0>>}

Leaves ==
    {StrNode(<<107>>, <<104, 105>>), FloatNode(<<102>>)}
    \cup {IntNode(<<110>>, bs) : bs \in IntBytes}

Items ==
    Leaves
    \cup {MapNode(<<109>>, <<>>),
          MapNode(<<109>>, StrNode(<<107>>, <<118>>)),
          MapNode(<<109>>, MapNode(<<120>>, StrNode(<<107>>, <<>>)) \o IntNode(<<110>>, <<2, 0, 0, 0>>))}

Seconds == {StrNode(<<107>>, <<104, 105>>), IntNode(<<110>>, <<255, 255, 255, 255>>)}

KidLists == {<<>>} \cup Items \cup {x \o y : x \in Items, y \in Seconds}

\* One map Node with its children and its terminator.
RootMaps == {MapNode(<<97>>, kids) : kids \in KidLists}

\* What follows an entry header in a generated buffer: one root map alone, a
\* root map and the terminator the entry's own loop waits for, or that
\* terminator alone.
Bodies == RootMaps \cup {r \o <<VdfTypes_End>> : r \in RootMaps} \cup {<<VdfTypes_End>>}

SimpleEntry == GameHeaderBytes \o MapNode(<<97>>, StrNode(<<107>>, <<118>>)) \o <<VdfTypes_End>>

RECURSIVE Repeat(_, _)
Repeat(s, n) == IF n = 0 THEN <<>> ELSE s \o Repeat(s, n - 1)

Prefix(s, n) == SubSeq(s, 1, n)

ValidDocs ==
    {SigOk \o VerOk \o GameHeaderBytes \o body \o Repeat(SimpleEntry, more) :
        body \in Bodies, more \in 0..MaxMore}

LongDoc ==
    SigOk \o VerOk \o GameHeaderBytes
    \o MapNode(<<97>>, StrNode(<<107>>, <<118>>) \o IntNode(<<110>>, <<1, 2, 3, 4>>)) \o <<VdfTypes_End>>

Buffers ==
    {Prefix(d, Len(d) - cut) : d \in ValidDocs, cut \in 0..MaxCut}
    \cup {Prefix(LongDoc, n) : n \in 0..Len(LongDoc)}
    \cup {SigOk \o VerOk \o Repeat(SimpleEntry, n) : n \in 0..(MaxMore + 1)}
    \cup {sg \o vr \o SimpleEntry : sg \in {SigOk, SigBad}, vr \in {VerOk, VerBad}}

-----------------------------------------------------------------------------
\* new Vdf(buffer).

NoRead == [op |-> "none", length |-> 0, at |-> 0, threw |-> FALSE, num |-> 0, str |-> <<>>]

Init ==
    /\ buf \in Buffers
    /\ off = 0
    /\ pc = "Start"
    /\ err = "none"
    /\ sign = 0
    /\ version = 0
    /\ childrenCount = 0
    /\ children = <<>>
    /\ game = NoGame
    /\ stack = <<>>
    /\ last = NoRead

\* Vdf._parseHeader without the test of the signature.
VdfParseHeader_NoSignCheck ==
    /\ pc = "Start"
    /\ LET s == parseNumber[buf, off, 32]
           v == parseNumber[buf, s.off, 32]
       IN  /\ sign' = s.value
           /\ version' = v.value
           /\ off' = v.off
           /\ IF v.value \notin VdfVersions
              THEN err' = "InvalidVersion" /\ pc' = "Failed"
              ELSE err' = err /\ pc' = "Body"
    /\ UNCHANGED <<buf, childrenCount, children, game, stack, last>>

\* Vdf._parseHeader.  The Error it throws leaves the constructor: no Vdf
\* object reaches the caller.
VdfParseHeader ==
    /\ pc = "Start"
    /\ LET s == parseNumber[buf, off, 32]
           v == parseNumber[buf, s.off, 32]
       IN  /\ sign' = s.value
           /\ IF s.value \notin VdfFileTypes
              THEN /\ err' = "InvalidSignature"
                   /\ pc' = "Failed"
                   /\ off' = s.off
                   /\ version' = version
              ELSE /\ version' = v.value
                   /\ off' = v.off
                   /\ IF v.value \notin VdfVersions
                      THEN err' = "InvalidVersion" /\ pc' = "Failed"
                      ELSE err' = err /\ pc' = "Body"
    /\ UNCHANGED <<buf, childrenCount, children, game, stack, last>>

\* The catch block of Vdf._parseBody: whatever was thrown while an entry was
\* being built is dropped, then this._childrenCount-- and
\* this._children.pop(), and the constructor returns.
Catch(count) ==
    /\ childrenCount' = count - 1
    /\ children' = Pop(children)
    /\ game' = NoGame
    /\ stack' = <<>>
    /\ pc' = "Done"

\* One turn of the loop of Vdf._parseBody, up to the end of the entry's
\* header: this._childrenCount++, then new VdfGame(stream) runs _parseHeader.
VdfGameBegin ==
    /\ pc = "Body"
    /\ LET h == GameParseHeader(buf, off)
       IN  /\ ~h.threw
           /\ off' = h.off
           /\ childrenCount' = childrenCount + 1
           /\ game' = h.game
           /\ pc' = "GameBody"
    /\ UNCHANGED <<buf, err, sign, version, children, stack, last>>

\* The try block placed inside the loop: a failed entry is dropped and the
\* loop goes on.
VdfGameHeaderThrows_Retry ==
    /\ pc = "Body"
    /\ LET h == GameParseHeader(buf, off)
       IN  /\ h.threw
           /\ off' = h.off
           /\ childrenCount' = childrenCount
           /\ children' = Pop(children)
           /\ game' = NoGame
           /\ stack' = <<>>
           /\ pc' = "Body"
    /\ UNCHANGED <<buf, err, sign, version, last>>

VdfGameHeaderThrows ==
    /\ pc = "Body"
    /\ LET h == GameParseHeader(buf, off)
       IN  /\ h.threw
           /\ off' = h.off
           /\ Catch(childrenCount + 1)
    /\ UNCHANGED <<buf, err, sign, version, last>>

\* The owner of the node read next: the innermost map under construction,
\* or the entry itself.
Top == stack[Len(stack)]

\* A child of a map or of the entry turns out to be a map: it starts its own
\* loop.
NodeMap ==
    /\ pc = "GameBody"
    /\ LET c == Construct(buf, off)
       IN  /\ c.kind = "map"
           /\ off' = c.off
           /\ IF stack = <<>>
              THEN /\ game' = Incr(game)
                   /\ stack' = <<c.node>>
              ELSE /\ game' = game
                   /\ stack' = Append([stack EXCEPT ![Len(stack)] = Incr(@)], c.node)
    /\ UNCHANGED <<buf, pc, err, sign, version, childrenCount, children, last>>

\* A child that holds no children is read and pushed.
NodeLeaf ==
    /\ pc = "GameBody"
    /\ LET c == Construct(buf, off)
       IN  /\ c.kind = "leaf"
           /\ off' = c.off
           /\ IF stack = <<>>
              THEN /\ game' = Push(Incr(game), c.node)
                   /\ stack' = stack
              ELSE /\ game' = game
                   /\ stack' = [stack EXCEPT ![Len(stack)] = Push(Incr(@), c.node)]
    /\ UNCHANGED <<buf, pc, err, sign, version, childrenCount, children, last>>

\* A map reads its terminator: its constructor returns and its owner, whose
\* childrenCount was raised when the map was started, pushes it.
MapEnd ==
    /\ pc = "GameBody"
    /\ stack # <<>>
    /\ LET c == Construct(buf, off)
           done == CloseChildren(Top, c.node)
           rest == Pop(stack)
       IN  /\ c.kind = "end"
           /\ off' = c.off
           /\ IF rest = <<>>
              THEN /\ game' = Push(game, done)
                   /\ stack' = rest
              ELSE /\ game' = game
                   /\ stack' = [rest EXCEPT ![Len(rest)] = Push(@, done)]
    /\ UNCHANGED <<buf, pc, err, sign, version, childrenCount, children, last>>

\* The entry's own loop reads its terminator: new VdfGame returns and
\* Vdf._parseBody pushes the entry and loops.
GameEnd ==
    /\ pc = "GameBody"
    /\ stack = <<>>
    /\ LET c == Construct(buf, off)
       IN  /\ c.kind = "end"
           /\ off' = c.off
           /\ children' = Append(children, CloseChildren(game, c.node))
           /\ game' = NoGame
           /\ pc' = "Body"
    /\ UNCHANGED <<buf, err, sign, version, childrenCount, stack, last>>

\* A helper throws inside a node: nothing between it and Vdf._parseBody
\* catches.
NodeThrows ==
    /\ pc = "GameBody"
    /\ LET c == Construct(buf, off)
       IN  /\ c.kind = "throw"
           /\ off' = c.off
           /\ Catch(childrenCount)
    /\ UNCHANGED <<buf, err, sign, version, last>>

Next ==
    \/ VdfParseHeader
    \/ VdfGameBegin
    \/ VdfGameHeaderThrows
    \/ NodeMap
    \/ NodeLeaf
    \/ MapEnd
    \/ GameEnd
    \/ NodeThrows

Spec == Init /\ [][Next]_vars

\* The constructor runs to completion without waiting for anything.
LiveSpec == Spec /\ WF_vars(Next)

-----------------------------------------------------------------------------
\* The stream helpers on their own: each is applied, at whatever offset the
\* calls before it have left the stream, to buffers that start with a field
\* of a known width.

ByteSamples == {0, 65, 255}

Tails == UNION {[1..n -> ByteSamples] : n \in 0..MaxTail}

Words ==
    {TokenBytes, <<0, 0, 0, 0, 1, 0, 0, 0>>, <<255, 255, 255, 255, 255, 255, 255, 255>>,
     <<0, 0, 0, 128, 0, 0, 0, 0>>, DigestBytes, <<>>}

CursorBuffers == {w \o t : w \in Words, t \in Tails}

InitCursor ==
    /\ buf \in CursorBuffers
    /\ off = 0
    /\ pc = "Cursor"
    /\ err = "none"
    /\ sign = 0
    /\ version = 0
    /\ childrenCount = 0
    /\ children = <<>>
    /\ game = NoGame
    /\ stack = <<>>
    /\ last = NoRead

CursorParseNumber ==
    /\ pc = "Cursor"
    /\ \E length \in {8, 32, 64} :
        LET r == parseNumber[buf, off, length]
        IN  /\ off' = r.off
            /\ last' = [op |-> "number", length |-> length, at |-> off,
                        threw |-> r.threw, num |-> r.value, str |-> <<>>]
    /\ UNCHANGED <<buf, pc, err, sign, version, childrenCount, children, game, stack>>

CursorParseString ==
    /\ pc = "Cursor"
    /\ LET r == parseString[buf, off]
       IN  /\ off' = r.off
           /\ last' = [op |-> "string", length |-> 0, at |-> off,
                       threw |-> r.threw, num |-> 0, str |-> r.value]
    /\ UNCHANGED <<buf, pc, err, sign, version, childrenCount, children, game, stack>>

CursorParseRawBytes ==
    /\ pc = "Cursor"
    /\ LET r == parseRawBytes[buf, off, 160]
       IN  /\ off' = r.off
           /\ last' = [op |-> "raw", length |-> 160, at |-> off,
                       threw |-> r.threw, num |-> 0, str |-> r.value]
    /\ UNCHANGED <<buf, pc, err, sign, version, childrenCount, children, game, stack>>

NextCursor ==
    \/ CursorParseNumber
    \/ CursorParseString
    \/ CursorParseRawBytes

SpecCursor == InitCursor /\ [][NextCursor]_vars

-----------------------------------------------------------------------------
\* Arithmetic the properties are stated with.

\* The signed 32-bit integer whose little-endian encoding is b0 b1 b2 b3.
SignedLE(b0, b1, b2, b3) ==
    b0 + 256 * b1 + 65536 * b2 + 16777216 * (IF b3 >= 128 THEN b3 - 256 ELSE b3)

\* The byte of s at offset o (0-based), 0 past the end.
ByteAt(s, o) == IF o + 1 <= Len(s) THEN s[o + 1] ELSE 0

SignedAt(s, o) == SignedLE(ByteAt(s, o), ByteAt(s, o + 1), ByteAt(s, o + 2), ByteAt(s, o + 3))

RECURSIVE Digit256(_, _)
\* Digit i of the base-256 expansion of a natural number.
Digit256(v, i) == IF i = 0 THEN v % 256 ELSE Digit256(v \div 256, i - 1)

\* Two lowercase hexadecimal digits.
Hex2(x) == <<HexDigits[(x \div 16) + 1], HexDigits[(x % 16) + 1]>>

RECURSIVE Hex2All(_)
Hex2All(bytes) == IF bytes = <<>> THEN <<>> ELSE Hex2(Head(bytes)) \o Hex2All(Tail(bytes))

RECURSIVE Size(_)
RECURSIVE SumSize(_)
\* The bytes a node occupies: tag, name and its zero, then the value; a map's
\* value is its children and one terminator byte.
Size(node) ==
    1 + Len(node.name) + 1
    + (IF node.type = VdfTypes_Map THEN SumSize(node.children) + 1
       ELSE IF node.type = VdfTypes_String THEN Len(node.value.s) + 1
       ELSE IF node.type = VdfTypes_Int32 THEN 4
       ELSE 0)
SumSize(nodes) == IF nodes = <<>> THEN 0 ELSE Size(Head(nodes)) + SumSize(Tail(nodes))

\* The children of the owner of the node read next.
OwnerChildren == IF stack = <<>> THEN game.children ELSE Top.children

-----------------------------------------------------------------------------
\* Properties.

\* C1: no entry is decoded, and no byte past the header is read, unless the
\* signature read first is the accepted constant and the version read next
\* is an accepted one.  A wrong signature ends the constructor with the
\* signature error before the version is read, a wrong version ends it with
\* the version error before any entry byte is read; either way the caller
\* gets the error and no document.
C1_HeaderGate ==
    /\ pc \in {"Body", "GameBody", "Done"} =>
          sign \in VdfFileTypes /\ version \in VdfVersions /\ err = "none"
    /\ (pc # "Start" /\ sign \notin VdfFileTypes) =>
          pc = "Failed" /\ err = "InvalidSignature" /\ off <= 4 /\ version = 0
    /\ (pc # "Start" /\ sign \in VdfFileTypes /\ version \notin VdfVersions) =>
          pc = "Failed" /\ err = "InvalidVersion" /\ off <= 8
    /\ pc = "Failed" =>
          children = <<>> /\ childrenCount = 0 /\ game = NoGame /\ stack = <<>>
    /\ off > 8 => sign \in VdfFileTypes /\ version \in VdfVersions
    /\ (pc # "Start" /\ Len(buf) >= 4) => sign = SignedAt(buf, 0)
    /\ (pc # "Start" /\ sign \in VdfFileTypes /\ Len(buf) >= 8) => version = SignedAt(buf, 4)

\* A buffer with entry bytes behind a wrong signature has been refused.
C1_Witness ==
    /\ pc = "Failed"
    /\ err = "InvalidSignature"
    /\ Len(buf) > 8
    /\ SubSeq(buf, 1, 4) = SigBad
    /\ off = 4

\* The buffers of C2: a valid header, one entry header, one root map Node
\* with its children and its terminator, and nothing after it; and the same
\* with the one terminator byte that ends the list of the entry's nodes.
OneEntryDocs ==
    {SigOk \o VerOk \o GameHeaderBytes \o r : r \in RootMaps}
    \cup {SigOk \o VerOk \o GameHeaderBytes \o r \o <<VdfTypes_End>> : r \in RootMaps}

\* C2: a valid header, one complete well-formed entry and no further byte
\* decode without an error and give a document with exactly one entry.
C2_OneEntry ==
    (pc \in {"Done", "Failed"} /\ buf \in OneEntryDocs) =>
        /\ pc = "Done"
        /\ err = "none"
        /\ Len(children) = 1
        /\ jsonSync.count = 1
        /\ Len(jsonSync.games) = 1

\* C3: when the entry loop stops on a failed entry, nothing but the entry
\* under construction is dropped: the entries decoded so far all stay, in
\* order, and the count of the JSON view is the length of its entry list.
C3_OnlyPartialDropped ==
    [][(pc # "Done" /\ pc' = "Done") =>
          /\ children' = children
          /\ jsonSync'.count = Len(jsonSync'.games)]_vars

\* What a helper call needs and the stream no longer holds.
ShortRead ==
    IF last.op = "string" THEN ZeroAt[buf, last.at] = 0
    ELSE last.at + (last.length \div 8) > Len(buf)

\* C4: a helper call that needs more bytes than remain fails and leaves the
\* offset where it was.
C4_ShortReadFails ==
    (last.op # "none" /\ ShortRead) => (last.threw /\ off = last.at)

\* C5: the digest of an entry is the text made of exactly two lowercase
\* hexadecimal digits for each of its 20 bytes, in buffer order: 40
\* characters.
C5_DigestHex ==
    pc = "GameBody" =>
        /\ game.sha = Hex2All(SubSeq(buf, game.at + 25, game.at + 44))
        /\ Len(game.sha) = 40

\* The node read by the latest step, when that step pushed one.
Last(seq) == seq[Len(seq)]

\* An int32 node with its name and its four value bytes starts at the
\* stream's offset.
IntAhead ==
    /\ pc = "GameBody"
    /\ off < Len(buf)
    /\ buf[off + 1] = VdfTypes_Int32
    /\ ZeroAt[buf, off + 1] # 0
    /\ ZeroAt[buf, off + 1] + 4 <= Len(buf)

\* C6: the JSON value of an int32 node is the signed two's-complement
\* integer that its four value bytes encode in little-endian order, and
\* reading the value moves the stream by exactly 4 bytes.
C6_Int32Value ==
    [][IntAhead =>
          LET z == ZeroAt[buf, off + 1]
          IN  /\ pc' = "GameBody"
              /\ Len(OwnerChildren') = Len(OwnerChildren) + 1
              /\ Last(OwnerChildren').type = VdfTypes_Int32
              /\ Last(OwnerChildren').name = SubSeq(buf, off + 2, z - 1)
              /\ NodeValue(Last(OwnerChildren')) = Number(SignedAt(buf, z))
              /\ off' = z + 4]_vars

\* An int32 node with the value bytes ff ff ff ff has just been read as -1.
C6_Witness ==
    /\ pc = "GameBody"
    /\ OwnerChildren # <<>>
    /\ Last(OwnerChildren).type = VdfTypes_Int32
    /\ NodeValue(Last(OwnerChildren)).n = -1
    /\ off >= 4
    /\ SubSeq(buf, off - 3, off) = <<255, 255, 255, 255>>

RECURSIVE WellFormed(_)
\* No terminator among the children of a finished node, at any depth, and
\* a count that is the number of its children.
WellFormed(node) ==
    /\ node.type # VdfTypes_End
    /\ node.childrenCount = Len(node.children)
    /\ node.type # VdfTypes_Map => node.children = <<>>
    /\ \A i \in 1..Len(node.children) : WellFormed(node.children[i])
    /\ node.type = VdfTypes_Map =>
          /\ NodeValue(node).kind = "object"
          /\ DOMAIN NodeValue(node).obj = {node.children[i].name : i \in 1..Len(node.children)}

\* Every node whose constructor has returned and that is still held.
FinishedNodes ==
    UNION {{children[g].children[i] : i \in 1..Len(children[g].children)} : g \in 1..Len(children)}
    \cup {game.children[i] : i \in 1..Len(game.children)}
    \cup UNION {{stack[d].children[i] : i \in 1..Len(stack[d].children)} : d \in 1..Len(stack)}

\* What one step does to the map whose child loop is running.
MapStep ==
    (pc = "GameBody" /\ stack # <<>> /\ pc' = "GameBody") =>
        IF Len(stack') = Len(stack) - 1
        THEN \* the terminator: one byte, and the map is handed over without it
             /\ buf[off + 1] = VdfTypes_End
             /\ off' = off + 1
             /\ Last(OwnerChildren').type = VdfTypes_Map
             /\ Last(OwnerChildren').name = Top.name
             /\ Last(OwnerChildren').children = Top.children
             /\ Last(OwnerChildren').childrenCount = Len(Top.children)
        ELSE IF Len(stack') = Len(stack)
        THEN \* a child without children: one more child
             /\ buf[off + 1] # VdfTypes_End
             /\ Len(Top'.children) = Len(Top.children) + 1
             /\ SubSeq(Top'.children, 1, Len(Top.children)) = Top.children
             /\ Last(Top'.children).type = buf[off + 1]
             /\ Top'.childrenCount = Len(Top'.children)
        ELSE \* a child map starts: it is pushed when it ends
             /\ buf[off + 1] = VdfTypes_Map
             /\ Len(stack') = Len(stack) + 1
             /\ stack'[Len(stack)].children = Top.children
             /\ stack'[Len(stack)].childrenCount = Len(Top.children) + 1
             /\ Top'.children = <<>>

\* C7: the terminator that ends a map's children is read but is never one
\* of the map's children nor a key of its JSON value, at any depth, and the
\* map's count is the number of the other nodes read for it.
C7_TerminatorExcluded ==
    /\ [](\A node \in FinishedNodes : WellFormed(node))
    /\ [][MapStep]_vars

\* A decoded entry holds a map that holds a map that holds a node.
C7_Witness ==
    /\ children # <<>>
    /\ \E i \in 1..Len(children[1].children) :
          LET r == children[1].children[i]
          IN  /\ r.type = VdfTypes_Map
              /\ \E j \in 1..Len(r.children) :
                    /\ r.children[j].type = VdfTypes_Map
                    /\ r.children[j].childrenCount >= 1
                    /\ r.childrenCount >= 2

\* C8 as stated: an entry is its 48-byte header and exactly one node, and
\* the stream stands right after that node when the entry is complete.
C8_ExactlyOneNode ==
    [][(pc = "GameBody" /\ pc' = "Body") =>
          /\ Len(Last(children').children) = 1
          /\ off' = Last(children').at + 48 + Size(Last(children').children[1])]_vars

\* C8 as the code has it: an entry is its 48-byte header, then nodes up to
\* and including a terminator; the entry keeps every node before the
\* terminator and the stream stands right after the terminator byte.
C8_NodesThenTerminator ==
    /\ [][(pc = "Body" /\ pc' = "GameBody") => game'.at = off]_vars
    /\ [][(pc = "GameBody" /\ pc' = "Body") =>
             /\ Last(children').children = game.children
             /\ Last(children').childrenCount = Len(game.children)
             /\ \A i \in 1..Len(game.children) : game.children[i].type # VdfTypes_End
             /\ buf[off + 1] = VdfTypes_End
             /\ off' = off + 1
             /\ off' = game.at + 48 + SumSize(game.children) + 1]_vars

\* An entry made of a header, one root map and the terminator is complete.
C8_Witness ==
    /\ pc = "Body"
    /\ children # <<>>
    /\ Len(Last(children).children) = 1
    /\ Last(children).children[1].type = VdfTypes_Map
    /\ off = Last(children).at + 48 + Size(Last(children).children[1]) + 1

\* C9: once the header has passed both tests the constructor returns a
\* document, whatever the rest of the buffer holds: every loop stops when
\* the input runs out, and what stops the entry loop is not thrown on.
C9_ReachesDone ==
    (pc = "Start" /\ SignedAt(buf, 0) \in VdfFileTypes /\ SignedAt(buf, 4) \in VdfVersions)
        ~> (pc = "Done" /\ err = "none")

\* The constructor has returned after the input ran out inside an entry.
C9_Witness ==
    /\ pc = "Done"
    /\ err = "none"
    /\ off = Len(buf)
    /\ Len(buf) > 56
    /\ childrenCount >= 1

\* C10: a read of 8, 32 or 64 bits for which enough bytes remain gives the
\* unsigned number whose base-256 digits, lowest first, are those bytes, and
\* moves the stream by that many bytes.
C10_UnsignedLE ==
    (last.op = "number" /\ last.at + (last.length \div 8) <= Len(buf)) =>
        /\ last.num >= 0
        /\ \A i \in 0..((last.length \div 8) - 1) : Digit256(last.num, i) = buf[last.at + 1 + i]
        /\ off = last.at + (last.length \div 8)

====
